---- MODULE Spec2Model ----
(***************************************************************************)
(* Model of quickrefs_index.py: the heading detector, the annotation       *)
(* parser, the build command, Index.save / Index.load and the jumplist     *)
(* commands.                                                                *)
(*                                                                          *)
(* A Python str is a sequence of one-character strings.  None is the empty *)
(* sequence and a present optional value v is <<v>>.                        *)
(***************************************************************************)
EXTENDS Integers, Sequences, FiniteSets, TLC

VARIABLES
    tree,       \* names of the files below the working directory
    fnames,     \* build: the list get_files_to_parse returned
    fidx,       \* build: position in fnames of the file being parsed (0: none yet)
    content,    \* per file, the lines the parser has consumed so far
    atEof,      \* per file, TRUE once the file iterator was exhausted
    curl,       \* parse_file: the line held by pairwise (None before the first)
    cur_heading,\* parse_file: cur_heading
    index,      \* the in-memory Index of the running command
    outfile,    \* the index file on disk
    outfile0,   \* the index file as it was when the run started
    pc,         \* position of the running command
    stderr,     \* number of diagnostics written to the error stream
    stdout,     \* lines echoed to standard output
    cmd,        \* the read-only command being run, and its argument
    hcurl,      \* is_heading: argument curl
    hnextl,     \* is_heading: argument nextl
    hresult     \* is_heading: outcome ("pending" before the call)

vars == <<tree, fnames, fidx, content, atEof, curl, cur_heading, index,
          outfile, outfile0, pc, stderr, stdout, cmd, hcurl, hnextl, hresult>>

-----------------------------------------------------------------------------
(* Bounds of the model *)

MaxLen == 4         \* longest line given to is_heading in SpecHeading
MaxLines == 5       \* most lines read from the files in one build run
MaxDeadlines == 3   \* most deadlines of an index file read by the commands

-----------------------------------------------------------------------------
(* str helpers *)

\* The backtick and the apostrophe cannot stand in a string literal of this
\* language; these two atoms are those characters.
BT == "<backtick>"
AP == "<apostrophe>"

None == <<>>
Some(v) == <<v>>

Whitespace == {" ", "\t", "\n", "\r"}

\* str.rstrip()
RECURSIVE rstrip(_)
rstrip(s) ==
    IF s = <<>> THEN s
    ELSE IF s[Len(s)] \in Whitespace THEN rstrip(SubSeq(s, 1, Len(s) - 1))
    ELSE s

\* str.lstrip()
RECURSIVE lstrip(_)
lstrip(s) ==
    IF s = <<>> THEN s
    ELSE IF s[1] \in Whitespace THEN lstrip(Tail(s))
    ELSE s

\* str.strip()
strip(s) == lstrip(rstrip(s))

\* str.split() with no argument: the maximal runs of non-whitespace
RECURSIVE split_ws(_, _)
split_ws(s, word) ==
    IF s = <<>> THEN (IF word = <<>> THEN <<>> ELSE <<word>>)
    ELSE IF s[1] \in Whitespace
         THEN (IF word = <<>> THEN <<>> ELSE <<word>>) \o split_ws(Tail(s), <<>>)
         ELSE split_ws(Tail(s), Append(word, s[1]))

\* c * n
RECURSIVE repeat(_, _)
repeat(c, n) == IF n <= 0 THEN <<>> ELSE c \o repeat(c, n - 1)

Range(s) == {s[i] : i \in 1..Len(s)}

\* all sequences over S of length at most n
RECURSIVE SeqsUpTo(_, _)
SeqsUpTo(S, n) ==
    IF n = 0 THEN {<<>>}
    ELSE LET shorter == SeqsUpTo(S, n - 1)
         IN  shorter \cup {Append(s, c) : s \in {t \in shorter : Len(t) = n - 1}, c \in S}

-----------------------------------------------------------------------------
(* is_heading *)

HEADING_CHARS ==
    Range(split_ws(<<"=", " ", "-", " ", BT, " ", AP, " ", ".", " ",
                     "~", " ", "*", " ", "+", " ", "^">>, <<>>))

is_heading_nolen(a, b) ==
    LET c == rstrip(a)
        n == rstrip(b)
    IN  IF Len(c) # Len(n) THEN "False"
        ELSE IF Len(n) = 0 THEN "IndexError"
        ELSE IF <<n[1]>> \notin HEADING_CHARS THEN "False"
        ELSE IF n = repeat(<<n[1]>>, Len(n)) THEN "True"
        ELSE "False"

\* The outcome of is_heading(a, b): "True", "False", or "IndexError" when
\* nextl[0] is evaluated on an empty string.
is_heading(a, b) ==
    LET c == rstrip(a)
        n == rstrip(b)
    IN  IF Len(c) < 3 THEN "False"
        ELSE IF Len(c) # Len(n) THEN "False"
        ELSE IF Len(n) = 0 THEN "IndexError"
        ELSE IF <<n[1]>> \notin HEADING_CHARS THEN "False"
        ELSE IF n = repeat(<<n[1]>>, Len(n)) THEN "True"
        ELSE "False"

-----------------------------------------------------------------------------
(* Records of the Index *)

Heading(file, line, heading, level) ==
    [file |-> file, line |-> line, heading |-> heading, level |-> level]

Reference(file, line, reference, section) ==
    [file |-> file, line |-> line, reference |-> reference, section |-> section]

Deadline(file, line, what, when, section) ==
    [file |-> file, line |-> line, what |-> what, when |-> when, section |-> section]

Todo(file, line, what, section) ==
    [file |-> file, line |-> line, what |-> what, section |-> section]

\* Index(): the four default_factory=list fields
EmptyIndex ==
    [headings |-> <<>>, references |-> <<>>, deadlines |-> <<>>, todos |-> <<>>]

-----------------------------------------------------------------------------
(* re.findall for the three patterns: a literal prefix, a lazy group, a literal suffix *)

ref_pattern == [pre |-> <<BT>>, suf |-> <<BT, "_">>]
dl_pattern == [pre |-> <<":", "d", "e", "a", "d", "l", "i", "n", "e", ":", BT>>,
               suf |-> <<BT>>]
todo_pattern == [pre |-> <<":", "t", "o", "d", "o", ":", BT>>, suf |-> <<BT>>]

StartsAt(s, p, w) ==
    /\ p + Len(w) - 1 <= Len(s)
    /\ SubSeq(s, p, p + Len(w) - 1) = w

\* The end of the lazy group that starts at g: the first position at or after g
\* where suf follows, no newline being crossed (the dot matches no newline); 0 if none.
GroupEnd(s, g, suf) ==
    LET ends == {e \in g..Len(s) :
                    /\ StartsAt(s, e, suf)
                    /\ \A k \in g..(e - 1) : s[k] # "\n"}
    IN  IF ends = {} THEN 0
        ELSE CHOOSE e \in ends : \A d \in ends : e <= d

RECURSIVE findall_from(_, _, _)
findall_from(pat, s, p) ==
    IF p > Len(s) THEN <<>>
    ELSE IF ~StartsAt(s, p, pat.pre) THEN findall_from(pat, s, p + 1)
    ELSE LET g == p + Len(pat.pre)
             e == GroupEnd(s, g, pat.suf)
         IN  IF e = 0 THEN findall_from(pat, s, p + 1)
             ELSE <<SubSeq(s, g, e - 1)>> \o findall_from(pat, s, e + Len(pat.suf))

\* pattern.findall(s): the captured groups of the non-overlapping matches
findall(pat, s) == findall_from(pat, s, 1)

\* dl.split(":", maxsplit=1)
split_colon(s) ==
    LET colons == {k \in 1..Len(s) : s[k] = ":"}
    IN  IF colons = {} THEN <<s>>
        ELSE LET k == CHOOSE c \in colons : \A d \in colons : c <= d
             IN  <<SubSeq(s, 1, k - 1), SubSeq(s, k + 1, Len(s))>>

-----------------------------------------------------------------------------
(* Paths *)

\* A Path is the sequence of its parts, each part a str.
P_a == << <<"a", ".", "r", "s", "t">> >>
P_b == << <<"b", ".", "t", "x", "t">> >>
P_c == << <<"s", "u", "b">>, <<"c", ".", "r", "s", "t">> >>

AllPaths == {P_a, P_b, P_c}

\* ord() of the characters of the path names
Ord(c) ==
    CASE c = "." -> 46 [] c = "/" -> 47 [] c = "a" -> 97 [] c = "b" -> 98
      [] c = "c" -> 99 [] c = "r" -> 114 [] c = "s" -> 115 [] c = "t" -> 116
      [] c = "u" -> 117 [] c = "x" -> 120

\* str.__lt__: lexicographic by code point
RECURSIVE StrLess(_, _)
StrLess(a, b) ==
    IF b = <<>> THEN FALSE
    ELSE IF a = <<>> THEN TRUE
    ELSE IF Ord(a[1]) < Ord(b[1]) THEN TRUE
    ELSE IF Ord(b[1]) < Ord(a[1]) THEN FALSE
    ELSE StrLess(Tail(a), Tail(b))

\* Path.__lt__: the parts compared as lists of str
RECURSIVE PathLess(_, _)
PathLess(p, q) ==
    IF q = <<>> THEN FALSE
    ELSE IF p = <<>> THEN TRUE
    ELSE IF StrLess(p[1], q[1]) THEN TRUE
    ELSE IF StrLess(q[1], p[1]) THEN FALSE
    ELSE PathLess(Tail(p), Tail(q))

\* str(path)
RECURSIVE str_path(_)
str_path(p) ==
    IF Len(p) = 1 THEN p[1]
    ELSE p[1] \o <<"/">> \o str_path(Tail(p))

\* fname.endswith(suffix), fname the last part of the path
endswith(s, suffix) ==
    /\ Len(suffix) <= Len(s)
    /\ SubSeq(s, Len(s) - Len(suffix) + 1, Len(s)) = suffix

\* sorted(set): the elements of S in ascending order
RECURSIVE sorted_set(_)
sorted_set(S) ==
    IF S = {} THEN <<>>
    ELSE LET m == CHOOSE x \in S : \A y \in S \ {x} : PathLess(x, y)
         IN  <<m>> \o sorted_set(S \ {m})

\* sorted(set) with the order reversed
RECURSIVE sorted_set_reversed(_)
sorted_set_reversed(S) ==
    IF S = {} THEN <<>>
    ELSE LET m == CHOOSE x \in S : \A y \in S \ {x} : PathLess(y, x)
         IN  <<m>> \o sorted_set_reversed(S \ {m})

get_files_unsorted(files) ==
    sorted_set_reversed({p \in files : endswith(p[Len(p)], <<".", "r", "s", "t">>)})

\* get_files_to_parse, on the files found by the walk
get_files_to_parse(files) ==
    sorted_set({p \in files : endswith(p[Len(p)], <<".", "r", "s", "t">>)})

-----------------------------------------------------------------------------
(* The index file: JSON documents, Index.save and Index.load *)

JNull == [t |-> "null"]
JStr(s) == [t |-> "str", s |-> s]
JNum(n) == [t |-> "num", n |-> n]
JArr(a) == [t |-> "arr", a |-> a]
JObj(kv) == [t |-> "obj", kv |-> kv]
KV(k, v) == [k |-> k, v |-> v]
\* text that is not a JSON document
NotJson == [t |-> "garbage"]

Map(s, F(_)) == [i \in 1..Len(s) |-> F(s[i])]

dump_Heading(h) ==
    JObj(<<KV("file", JStr(h.file)), KV("line", JNum(h.line)),
           KV("heading", JStr(h.heading)), KV("level", JStr(h.level))>>)

dump_section_dropped(sec) == JNull

dump_section(sec) == IF sec = None THEN JNull ELSE dump_Heading(sec[1])

dump_Reference(r) ==
    JObj(<<KV("file", JStr(r.file)), KV("line", JNum(r.line)),
           KV("reference", JStr(r.reference)), KV("section", dump_section(r.section))>>)

dump_Deadline(d) ==
    JObj(<<KV("file", JStr(d.file)), KV("line", JNum(d.line)),
           KV("what", JStr(d.what)), KV("when", JStr(d.when)),
           KV("section", dump_section(d.section))>>)

dump_Todo(t) ==
    JObj(<<KV("file", JStr(t.file)), KV("line", JNum(t.line)),
           KV("what", JStr(t.what)), KV("section", dump_section(t.section))>>)

\* Index.model_dump_json()
model_dump_json(idx) ==
    JObj(<<KV("headings", JArr(Map(idx.headings, dump_Heading))),
           KV("references", JArr(Map(idx.references, dump_Reference))),
           KV("deadlines", JArr(Map(idx.deadlines, dump_Deadline))),
           KV("todos", JArr(Map(idx.todos, dump_Todo)))>>)

\* A validation result is None on a ValidationError and Some(value) otherwise.
Invalid == None

\* the member of a JSON object under a key (the last one wins), None if absent
member(j, key) ==
    LET at == {i \in 1..Len(j.kv) : j.kv[i].k = key}
    IN  IF at = {} THEN None
        ELSE Some(j.kv[CHOOSE i \in at : \A k \in at : k <= i].v)

v_str(m) == IF m # None /\ m[1].t = "str" THEN Some(m[1].s) ELSE Invalid
v_int(m) == IF m # None /\ m[1].t = "num" THEN Some(m[1].n) ELSE Invalid

v_Heading(j) ==
    IF j.t # "obj" THEN Invalid
    ELSE LET file == v_str(member(j, "file"))
             line == v_int(member(j, "line"))
             heading == v_str(member(j, "heading"))
             level == v_str(member(j, "level"))
         IN  IF file = Invalid \/ line = Invalid \/ heading = Invalid \/ level = Invalid THEN Invalid
             ELSE Some(Heading(file[1], line[1], heading[1], level[1]))

\* a required field of type Heading | None
v_section(m) ==
    IF m = None THEN Invalid
    ELSE IF m[1].t = "null" THEN Some(None)
    ELSE LET h == v_Heading(m[1])
         IN  IF h = Invalid THEN Invalid ELSE Some(Some(h[1]))

v_Reference(j) ==
    IF j.t # "obj" THEN Invalid
    ELSE LET file == v_str(member(j, "file"))
             line == v_int(member(j, "line"))
             reference == v_str(member(j, "reference"))
             section == v_section(member(j, "section"))
         IN  IF file = Invalid \/ line = Invalid \/ reference = Invalid \/ section = Invalid THEN Invalid
             ELSE Some(Reference(file[1], line[1], reference[1], section[1]))

v_Deadline(j) ==
    IF j.t # "obj" THEN Invalid
    ELSE LET file == v_str(member(j, "file"))
             line == v_int(member(j, "line"))
             what == v_str(member(j, "what"))
             when == v_str(member(j, "when"))
             section == v_section(member(j, "section"))
         IN  IF \/ file = Invalid \/ line = Invalid \/ what = Invalid
                \/ when = Invalid \/ section = Invalid
             THEN Invalid
             ELSE Some(Deadline(file[1], line[1], what[1], when[1], section[1]))

v_Todo(j) ==
    IF j.t # "obj" THEN Invalid
    ELSE LET file == v_str(member(j, "file"))
             line == v_int(member(j, "line"))
             what == v_str(member(j, "what"))
             section == v_section(member(j, "section"))
         IN  IF file = Invalid \/ line = Invalid \/ what = Invalid \/ section = Invalid THEN Invalid
             ELSE Some(Todo(file[1], line[1], what[1], section[1]))

\* the items of a JSON array, each validated by V
v_items(m, V(_)) == Map(m[1].a, V)

\* a field of type list[...] with default_factory=list; items are the validated
\* items of the array when the member is one
v_list(m, items) ==
    IF m = None THEN Some(<<>>)
    ELSE IF m[1].t # "arr" THEN Invalid
    ELSE IF \E i \in 1..Len(items) : items[i] = Invalid THEN Invalid
    ELSE Some([i \in 1..Len(items) |-> items[i][1]])

\* Index.model_validate_json(text)
model_validate_json(doc) ==
    IF doc.t # "obj" THEN Invalid
    ELSE LET hs == member(doc, "headings")
             rs == member(doc, "references")
             ds == member(doc, "deadlines")
             ts == member(doc, "todos")
             headings == v_list(hs, v_items(hs, v_Heading))
             references == v_list(rs, v_items(rs, v_Reference))
             deadlines == v_list(ds, v_items(ds, v_Deadline))
             todos == v_list(ts, v_items(ts, v_Todo))
         IN  IF \/ headings = Invalid \/ references = Invalid
                \/ deadlines = Invalid \/ todos = Invalid
             THEN Invalid
             ELSE Some([headings |-> headings[1], references |-> references[1],
                        deadlines |-> deadlines[1], todos |-> todos[1]])

\* A path of the file system: no file, a file that cannot be opened, or a file
\* with its text.
NoFile == [kind |-> "absent", doc |-> JNull]
Unreadable == [kind |-> "unreadable", doc |-> JNull]
TextFile(doc) == [kind |-> "text", doc |-> doc]

\* Index.load(fname): the Index returned, the exception that escapes ("no" if none)
\* and the number of diagnostics printed to sys.stderr.
\* Index.load without the except clause
Index_load_reraise(file) ==
    IF file.kind # "text"
    THEN [index |-> EmptyIndex, raised |-> "OSError", diag |-> 0]
    ELSE LET r == model_validate_json(file.doc)
         IN  IF r = Invalid
             THEN [index |-> EmptyIndex, raised |-> "ValidationError", diag |-> 0]
             ELSE [index |-> r[1], raised |-> "no", diag |-> 0]

\* Index.load catching every exception
Index_load_swallow(file) ==
    IF file.kind # "text"
    THEN [index |-> EmptyIndex, raised |-> "no", diag |-> 1]
    ELSE LET r == model_validate_json(file.doc)
         IN  IF r = Invalid
             THEN [index |-> EmptyIndex, raised |-> "no", diag |-> 1]
             ELSE [index |-> r[1], raised |-> "no", diag |-> 0]

Index_load(file) ==
    IF file.kind # "text"
    THEN [index |-> EmptyIndex, raised |-> "no", diag |-> 1]
    ELSE LET r == model_validate_json(file.doc)
         IN  IF r = Invalid
             THEN [index |-> EmptyIndex, raised |-> "ValidationError", diag |-> 0]
             ELSE [index |-> r[1], raised |-> "no", diag |-> 0]

\* Index.save(fname): the file after fname.write_text
Index_save(idx) == TextFile(model_dump_json(idx))

-----------------------------------------------------------------------------
(* parse_file *)

\* the Heading built when is_heading(c, n) holds
NewHeading(file, i, c, n) == Heading(str_path(file), i, strip(c), <<n[1]>>)

\* One iteration of the loop of parse_file on the pair (c, n), c being line i:
\* the Index and cur_heading after it, and the exception it raises ("no" if none).
\* The deadline loop stops at the first captured text without a colon, whose
\* unpacking raises ValueError.
loop_body(idx, file, i, c, n, curh) ==
    LET h == is_heading(c, n)
        f == str_path(file)
        refs == Map(findall(ref_pattern, c), LAMBDA g : Reference(f, i, strip(g), curh))
        dls == findall(dl_pattern, c)
        bad == {k \in 1..Len(dls) : Len(split_colon(dls[k])) # 2}
        nGood == IF bad = {} THEN Len(dls)
                 ELSE (CHOOSE k \in bad : \A j \in bad : k <= j) - 1
        deadlines == [k \in 1..nGood |->
                        LET pr == split_colon(dls[k])
                        IN  Deadline(f, i, strip(pr[2]), strip(pr[1]), curh)]
        todos == Map(findall(todo_pattern, c), LAMBDA g : Todo(f, i, strip(g), curh))
    IN  IF h = "IndexError"
        THEN [index |-> idx, cur_heading |-> curh, raised |-> "IndexError"]
        ELSE IF h = "True"
        THEN LET nh == NewHeading(file, i, c, n)
             IN  [index |-> [idx EXCEPT !.headings = Append(@, nh)],
                  cur_heading |-> Some(nh), raised |-> "no"]
        ELSE IF bad # {}
        THEN [index |-> [idx EXCEPT !.references = @ \o refs,
                                    !.deadlines = @ \o deadlines],
              cur_heading |-> curh, raised |-> "ValueError"]
        ELSE [index |-> [idx EXCEPT !.references = @ \o refs,
                                    !.deadlines = @ \o deadlines,
                                    !.todos = @ \o todos],
              cur_heading |-> curh, raised |-> "no"]

-----------------------------------------------------------------------------
(* The lines the parsed files are made of *)

\* abc
L_title == <<"a", "b", "c", "\n">>
\* ===
L_under == <<"=", "=", "=", "\n">>
\* two references, a todo and a deadline on one line
L_anno ==
    <<BT, "r", BT, "_", BT, "s", BT, "_", " ">>
    \o todo_pattern.pre \o <<"t", BT, " ">>
    \o dl_pattern.pre \o <<"1", ":", " ", "w", BT, "\n">>
\* a deadline whose text has no colon
L_bad == dl_pattern.pre \o <<"w", BT, "\n">>

Lines == {L_title, L_under, L_anno, L_bad}

\* an index written by an earlier run
OldIndex ==
    [EmptyIndex EXCEPT !.headings =
        <<Heading(str_path(P_a), 1, <<"o", "l", "d">>, <<"=">>)>>]

-----------------------------------------------------------------------------
(* build *)

file == fnames[fidx]

\* the number of lines read so far in this run
RECURSIVE LinesRead(_)
LinesRead(k) == IF k = 0 THEN 0 ELSE Len(content[fnames[k]]) + LinesRead(k - 1)

IdleHeading == hcurl = <<>> /\ hnextl = <<>> /\ hresult = "pending"

Init ==
    /\ tree \in SUBSET AllPaths
    /\ outfile0 \in {NoFile, Index_save(OldIndex)}
    /\ outfile = outfile0
    /\ fnames = <<>>
    /\ fidx = 0
    /\ content = [p \in AllPaths |-> <<>>]
    /\ atEof = [p \in AllPaths |-> FALSE]
    /\ curl = None
    /\ cur_heading = None
    /\ index = EmptyIndex
    /\ pc = "start"
    /\ stderr = 0
    /\ stdout = <<>>
    /\ cmd = [name |-> "build", arg |-> <<>>, today |-> 0]
    /\ IdleHeading

\* an exception escapes build after the handler saved what it had
raise_then_save ==
    /\ pc' = "aborted"
    /\ outfile' = Index_save(index)

\* an exception escapes build: the process ends, index.save is never reached
raise_in_build ==
    /\ pc' = "aborted"
    /\ outfile' = outfile

\* fnames = get_files_to_parse(workdir); index = Index()
GetFiles ==
    /\ pc = "start"
    /\ fnames' = get_files_to_parse(tree)
    /\ index' = EmptyIndex
    /\ pc' = "loop"
    /\ UNCHANGED <<tree, fidx, content, atEof, curl, cur_heading, outfile, outfile0,
                   stderr, stdout, cmd, hcurl, hnextl, hresult>>

\* parse_file opening the file without cur_heading = None
OpenFile_keep_heading ==
    /\ pc = "loop"
    /\ fidx < Len(fnames)
    /\ fidx' = fidx + 1
    /\ curl' = None
    /\ pc' = "parse"
    /\ UNCHANGED <<tree, fnames, content, atEof, index, outfile, outfile0, cur_heading,
                   stderr, stdout, cmd, hcurl, hnextl, hresult>>

\* parse_file: open(file) succeeds; cur_heading = None
OpenFile ==
    /\ pc = "loop"
    /\ fidx < Len(fnames)
    /\ fidx' = fidx + 1
    /\ curl' = None
    /\ cur_heading' = None
    /\ pc' = "parse"
    /\ UNCHANGED <<tree, fnames, content, atEof, index, outfile, outfile0,
                   stderr, stdout, cmd, hcurl, hnextl, hresult>>

\* parse_file: open(file) raises OSError
OpenFileError ==
    /\ pc = "loop"
    /\ fidx < Len(fnames)
    /\ fidx' = fidx + 1
    /\ raise_in_build
    /\ UNCHANGED <<tree, fnames, content, atEof, curl, cur_heading, index, outfile0,
                   stderr, stdout, cmd, hcurl, hnextl, hresult>>

\* pairwise(fobj) takes the first line of the file
ReadFirstLine ==
    /\ pc = "parse"
    /\ curl = None
    /\ content[file] = <<>>
    /\ LinesRead(Len(fnames)) < MaxLines
    /\ \E l \in Lines :
        /\ content' = [content EXCEPT ![file] = <<l>>]
        /\ curl' = Some(l)
    /\ UNCHANGED <<tree, fnames, fidx, atEof, cur_heading, index, outfile, outfile0,
                   pc, stderr, stdout, cmd, hcurl, hnextl, hresult>>

\* pairwise(fobj) takes the next line and the loop body runs on the pair
ParsePair ==
    /\ pc = "parse"
    /\ curl # None
    /\ LinesRead(Len(fnames)) < MaxLines
    /\ \E l \in Lines :
        LET r == loop_body(index, file, Len(content[file]), curl[1], l, cur_heading)
        IN  /\ content' = [content EXCEPT ![file] = Append(@, l)]
            /\ index' = r.index
            /\ cur_heading' = r.cur_heading
            /\ IF r.raised = "no"
               THEN curl' = Some(l) /\ UNCHANGED <<pc, outfile>>
               ELSE curl' = curl /\ raise_in_build
    /\ UNCHANGED <<tree, fnames, fidx, atEof, outfile0,
                   stderr, stdout, cmd, hcurl, hnextl, hresult>>

\* the file iterator is exhausted: the loop ends and the file is closed
EndOfFile ==
    /\ pc = "parse"
    /\ atEof' = [atEof EXCEPT ![file] = TRUE]
    /\ curl' = None
    /\ pc' = "loop"
    /\ UNCHANGED <<tree, fnames, fidx, content, cur_heading, index, outfile, outfile0,
                   stderr, stdout, cmd, hcurl, hnextl, hresult>>

\* reading the next line raises (OSError, UnicodeDecodeError)
ReadError ==
    /\ pc = "parse"
    /\ raise_in_build
    /\ UNCHANGED <<tree, fnames, fidx, content, atEof, curl, cur_heading, index,
                   outfile0, stderr, stdout, cmd, hcurl, hnextl, hresult>>

\* index.save(ofname), after the last file
Save ==
    /\ pc = "loop"
    /\ fidx = Len(fnames)
    /\ outfile' = Index_save(index)
    /\ pc' = "done"
    /\ UNCHANGED <<tree, fnames, fidx, content, atEof, curl, cur_heading, index,
                   outfile0, stderr, stdout, cmd, hcurl, hnextl, hresult>>

Next ==
    \/ GetFiles
    \/ OpenFile
    \/ OpenFileError
    \/ ReadFirstLine
    \/ ParsePair
    \/ EndOfFile
    \/ ReadError
    \/ Save

Spec == Init /\ [][Next]_vars

-----------------------------------------------------------------------------
(* Properties of build *)

\* the records that carry a section
Annotations == index.references \o index.deadlines \o index.todos

\* the positions in index.headings of the headings of file f before line n
HeadingsBefore(f, n) ==
    {k \in 1..Len(index.headings) :
        index.headings[k].file = f /\ index.headings[k].line < n}

Last(S) == CHOOSE k \in S : \A j \in S : j <= k

\* C1: every Reference, Deadline and Todo has as section the Heading most
\* recently detected at a smaller line of its own file, and None exactly when
\* that file has no heading before the record's line; a heading of another
\* file is never the section.
C1_SectionIsLatestHeading ==
    \A i \in 1..Len(Annotations) :
        LET r == Annotations[i]
            before == HeadingsBefore(r.file, r.line)
        IN  IF before = {} THEN r.section = None
            ELSE r.section = Some(index.headings[Last(before)])

C1_Witness ==
    \E i \in 1..Len(index.todos) : index.todos[i].section # None

\* the number of records of the list at line i of file f
CountAt(list, f, i) ==
    Cardinality({k \in 1..Len(list) : list[k].file = f /\ list[k].line = i})

IsHeadingLine(f, i) ==
    \E k \in 1..Len(index.headings) :
        index.headings[k].file = f /\ index.headings[k].line = i

\* C2: once a file is parsed to its end, every line of it that is not a heading,
\* whatever its position, has one record per match of each pattern, carrying
\* the number of the line; a deadline has when and what equal to the trimmed
\* text before and after the first colon.
C2_EveryLineScanned ==
    \A p \in AllPaths :
        atEof[p] =>
            \A i \in 1..Len(content[p]) :
                LET f == str_path(p)
                    l == content[p][i]
                    dls == findall(dl_pattern, l)
                IN  ~IsHeadingLine(f, i) =>
                        /\ CountAt(index.references, f, i) = Len(findall(ref_pattern, l))
                        /\ CountAt(index.todos, f, i) = Len(findall(todo_pattern, l))
                        /\ CountAt(index.deadlines, f, i) = Len(dls)
                        /\ \A k \in 1..Len(dls) :
                             \E d \in 1..Len(index.deadlines) :
                                /\ index.deadlines[d].file = f
                                /\ index.deadlines[d].line = i
                                /\ Len(split_colon(dls[k])) = 2
                                /\ index.deadlines[d].when = strip(split_colon(dls[k])[1])
                                /\ index.deadlines[d].what = strip(split_colon(dls[k])[2])

\* the path whose str() is f
PathOf(f) == CHOOSE p \in AllPaths : str_path(p) = f

\* records j < k of a list are in scan order
InScanOrder(list) ==
    \A j, k \in 1..Len(list) :
        j < k =>
            \/ PathLess(PathOf(list[j].file), PathOf(list[k].file))
            \/ list[j].file = list[k].file /\ list[j].line <= list[k].line

IsPrefix(a, b) == Len(a) <= Len(b) /\ SubSeq(b, 1, Len(a)) = a

C3_Ordered ==
    /\ InScanOrder(index.headings)
    /\ InScanOrder(index.references)
    /\ InScanOrder(index.deadlines)
    /\ InScanOrder(index.todos)

C3_Grows ==
    /\ IsPrefix(index.headings, index'.headings)
    /\ IsPrefix(index.references, index'.references)
    /\ IsPrefix(index.deadlines, index'.deadlines)
    /\ IsPrefix(index.todos, index'.todos)

\* C3: at every point of a build run each of the four lists is in scan order
\* (files in sorted path order, line numbers non-decreasing within a file), and
\* every step leaves each list a prefix of its next value.
C3_ScanOrderAppendOnly == []C3_Ordered /\ [][C3_Grows]_vars

C3_Witness ==
    /\ Len(index.references) >= 2
    /\ index.references[1].file # index.references[Len(index.references)].file
    /\ Len(index.headings) >= 1

\* C4: when parsing a file fails, build aborts and the file at the output path
\* is as it was before the run.
C4_AbortWritesNothing == pc = "aborted" => outfile = outfile0

C4_Witness ==
    /\ pc = "aborted"
    /\ fidx = 2
    /\ atEof[fnames[1]]
    /\ index.todos # <<>>
    /\ outfile0 = NoFile

\* C7: the Index that build saved is what Index.load returns from the file:
\* the same four lists, the same fields, the same sections.
C7_SaveLoadRoundTrip ==
    pc = "done" =>
        LET r == Index_load(outfile)
        IN  r.raised = "no" /\ r.diag = 0 /\ r.index = index

C7_Witness ==
    /\ pc = "done"
    /\ \E i \in 1..Len(index.todos) : index.todos[i].section = None
    /\ \E i \in 1..Len(index.deadlines) : index.deadlines[i].section # None

\* C10: no Heading is recorded at the line after a recorded Heading of the same
\* file.
C10_UnderlineIsNoHeading ==
    \A j, k \in 1..Len(index.headings) :
        index.headings[j].file = index.headings[k].file
            => index.headings[k].line # index.headings[j].line + 1

-----------------------------------------------------------------------------
(* is_heading on its own *)

\* the characters of the lines given to is_heading
LineChars == {"a", "=", " "}
Punctuation == {"=", "-", BT, AP, ".", "~", "*", "+", "^", "#", "_", ":"}

\* the lines given as curl
CurLines == SeqsUpTo(LineChars, MaxLen)

\* the lines given as nextl: those, and the runs of one punctuation character
NextLines ==
    CurLines \cup {repeat(<<c>>, n) : c \in Punctuation, n \in 1..MaxLen}

IdleBuild ==
    /\ tree = {}
    /\ fnames = <<>>
    /\ fidx = 0
    /\ content = [p \in AllPaths |-> <<>>]
    /\ atEof = [p \in AllPaths |-> FALSE]
    /\ curl = None
    /\ cur_heading = None

InitHeading ==
    /\ hcurl \in CurLines
    /\ hnextl \in NextLines
    /\ hresult = "pending"
    /\ IdleBuild
    /\ index = EmptyIndex
    /\ outfile = NoFile
    /\ outfile0 = NoFile
    /\ pc = "is_heading"
    /\ stderr = 0
    /\ stdout = <<>>
    /\ cmd = [name |-> "is_heading", arg |-> <<>>, today |-> 0]

CallIsHeading ==
    /\ hresult = "pending"
    /\ hresult' = is_heading(hcurl, hnextl)
    /\ UNCHANGED <<tree, fnames, fidx, content, atEof, curl, cur_heading, index,
                   outfile, outfile0, pc, stderr, stdout, cmd, hcurl, hnextl>>

NextHeading == CallIsHeading

SpecHeading == InitHeading /\ [][NextHeading]_vars

\* s without its trailing whitespace
Trimmed(s) ==
    LET keep == {k \in 0..Len(s) : k = 0 \/ s[k] \notin Whitespace}
    IN  SubSeq(s, 1, CHOOSE k \in keep : \A j \in keep : j <= k)

NineChars == {"=", "-", BT, AP, ".", "~", "*", "+", "^"}

\* C9: is_heading returns true exactly when, trailing whitespace trimmed, the
\* current line has at least 3 characters, both lines have the same length and
\* the next line is one of the nine heading characters repeated over its whole
\* length; otherwise it returns false, and it never raises.
C9_IsHeadingIff ==
    hresult # "pending" =>
        LET c == Trimmed(hcurl)
            n == Trimmed(hnextl)
        IN  /\ hresult \in {"True", "False"}
            /\ hresult = "True" <=>
                  /\ Len(c) >= 3
                  /\ Len(c) = Len(n)
                  /\ \E ch \in NineChars : \A i \in 1..Len(n) : n[i] = ch

C9_Witness ==
    /\ hresult = "True"
    /\ hcurl # Trimmed(hcurl)
    /\ hnextl[1] = "~"

-----------------------------------------------------------------------------
(* The jumplist commands *)

Digits == <<"0", "1", "2", "3", "4", "5", "6", "7", "8", "9">>
DigitValue(c) == (CHOOSE k \in 1..10 : Digits[k] = c) - 1

\* str(n) of an integer, as the f-strings format it
RECURSIVE str_nat(_)
str_nat(n) == IF n < 10 THEN <<Digits[n + 1]>> ELSE str_nat(n \div 10) \o <<Digits[(n % 10) + 1]>>
str_int(n) == IF n < 0 THEN <<"-">> \o str_nat(-n) ELSE str_nat(n)

\* dateutil parse(when), for the date expressions of the model, which name a day
\* by its number: Some(day), or None when parse raises ParserError.
RECURSIVE parse_from(_, _)
parse_from(s, acc) ==
    IF s = <<>> THEN Some(acc)
    ELSE IF s[1] \notin Range(Digits) THEN None
    ELSE parse_from(Tail(s), acc * 10 + DigitValue(s[1]))
parse(when) == IF when = <<>> THEN None ELSE parse_from(when, 0)

\* sorted(list, key=lambda h: parse(h.when)), every key being a date: each
\* element goes after the elements already placed whose key is not larger
RECURSIVE insert_by_date(_, _)
insert_by_date(done, d) ==
    IF done = <<>> THEN <<d>>
    ELSE IF parse(done[Len(done)].when)[1] <= parse(d.when)[1] THEN Append(done, d)
    ELSE Append(insert_by_date(SubSeq(done, 1, Len(done) - 1), d), done[Len(done)])

RECURSIVE insert_by_date_unstable(_, _)
insert_by_date_unstable(done, d) ==
    IF done = <<>> THEN <<d>>
    ELSE IF parse(done[Len(done)].when)[1] < parse(d.when)[1] THEN Append(done, d)
    ELSE Append(insert_by_date_unstable(SubSeq(done, 1, Len(done) - 1), d), done[Len(done)])

RECURSIVE sorted_unstable(_)
sorted_unstable(list) ==
    IF list = <<>> THEN <<>>
    ELSE insert_by_date_unstable(sorted_unstable(SubSeq(list, 1, Len(list) - 1)), list[Len(list)])

RECURSIVE sorted_by_date(_)
sorted_by_date(list) ==
    IF list = <<>> THEN <<>>
    ELSE insert_by_date(sorted_by_date(SubSeq(list, 1, Len(list) - 1)), list[Len(list)])

Colon == <<":", " ">>

\* the line deadline_jumplist echoes for d: its tab-separated columns
deadline_line(d, today) ==
    LET days == parse(d.when)[1] - today - 1
        tail == d.when \o <<" ", "(">> \o str_int(days) \o <<"d", ")">> \o Colon \o d.what
        label == IF d.section = None THEN tail
                 ELSE d.section[1].heading \o Colon \o tail
    IN  <<label, d.file, str_int(d.line)>>

\* the line todo_jumplist echoes for t
todo_line(t) ==
    LET label == IF t.section = None THEN t.what
                 ELSE t.section[1].heading \o Colon \o t.what
    IN  <<label, t.file, str_int(t.line)>>

IsMajor(h) == h.level \in {<<"=">>, <<"-">>}

\* the lines a command echoes from the loaded Index
heading_jumplist(idx) ==
    Map(SelectSeq(idx.headings, IsMajor),
        LAMBDA h : <<h.heading, h.file, str_int(h.line)>>)

print_all_headings(idx) ==
    Map(SelectSeq(idx.headings, IsMajor), LAMBDA h : <<h.heading>>)

jump_to_heading(idx, heading) ==
    Map(SelectSeq(idx.headings, LAMBDA h : heading = h.heading),
        LAMBDA h : <<h.file, str_int(h.line)>>)

todo_jumplist(idx) == Map(idx.todos, todo_line)

\* deadline_jumplist: None when parse raises in the sort key, before any line
\* is echoed; Some(lines) otherwise
deadline_jumplist(idx, today) ==
    IF \E i \in 1..Len(idx.deadlines) : parse(idx.deadlines[i].when) = None
    THEN None
    ELSE Some(Map(sorted_by_date(idx.deadlines), LAMBDA d : deadline_line(d, today)))

-----------------------------------------------------------------------------
(* The index files the commands are run on *)

H_setup == Heading(str_path(P_a), 1, <<"S", "e", "t">>, <<"=">>)
H_setup_c == Heading(str_path(P_c), 3, <<"S", "e", "t">>, <<"-">>)
H_minor == Heading(str_path(P_c), 7, <<"S", "u", "b">>, <<"~">>)

\* the date expressions of the stored deadlines: day 1 in two spellings, day 12,
\* and one that is no date
Whens == {<<"1">>, <<"0", "1">>, <<"1", "2">>, <<"x">>}

\* the deadline stored at position k with the date expression w
DeadlineAt(k, w) ==
    Deadline(str_path(P_a), k + 1, <<"w">>, w, IF k % 2 = 0 THEN Some(H_setup) ELSE None)

StoredIndexes ==
    {[headings |-> <<H_setup, H_setup_c, H_minor>>,
      references |-> <<Reference(str_path(P_a), 2, <<"r">>, Some(H_setup))>>,
      deadlines |-> [k \in 1..Len(ws) |-> DeadlineAt(k, ws[k])],
      todos |-> <<Todo(str_path(P_a), 2, <<"t">>, Some(H_setup)),
                  Todo(str_path(P_c), 1, <<"u">>, None)>>]
        : ws \in SeqsUpTo(Whens, MaxDeadlines)}

\* files that open but hold no Index: no JSON, JSON of another shape, a record
\* without a required field
CorruptDocs ==
    {NotJson,
     JArr(<<>>),
     JObj(<<KV("headings", JStr(<<"x">>))>>),
     JObj(<<KV("todos", JArr(<<JObj(<<KV("file", JStr(<<"f">>)), KV("line", JNum(1)),
                                      KV("what", JStr(<<"t">>))>>)>>))>>)}

IndexFiles ==
    {NoFile, Unreadable}
    \cup {TextFile(doc) : doc \in CorruptDocs}
    \cup {TextFile(JObj(<<>>))}
    \cup {Index_save(idx) : idx \in StoredIndexes}

Commands ==
    {[name |-> n, arg |-> <<>>, today |-> 0] :
        n \in {"heading_jumplist", "print_all_headings", "todo_jumplist"}}
    \cup {[name |-> "jump_to_heading", arg |-> h, today |-> 0] :
            h \in {H_setup.heading, H_minor.heading, <<"n", "o">>}}
    \cup {[name |-> "deadline_jumplist", arg |-> <<>>, today |-> t] : t \in {1, 12}}

InitJump ==
    /\ cmd \in Commands
    /\ outfile0 \in IndexFiles
    /\ outfile = outfile0
    /\ index = EmptyIndex
    /\ pc = "start"
    /\ stderr = 0
    /\ stdout = <<>>
    /\ IdleBuild
    /\ IdleHeading

\* index = Index.load(ifname)
Load ==
    /\ pc = "start"
    /\ LET r == Index_load(outfile)
       IN  /\ index' = r.index
           /\ stderr' = stderr + r.diag
           /\ pc' = IF r.raised = "no" THEN "loaded" ELSE "crashed"
    /\ UNCHANGED <<tree, fnames, fidx, content, atEof, curl, cur_heading,
                   outfile, outfile0, stdout, cmd, hcurl, hnextl, hresult>>

Echo(lines) ==
    /\ stdout' = stdout \o lines
    /\ pc' = "exit"
    /\ UNCHANGED <<tree, fnames, fidx, content, atEof, curl, cur_heading, index,
                   outfile, outfile0, stderr, cmd, hcurl, hnextl, hresult>>

HeadingJumplist ==
    /\ pc = "loaded" /\ cmd.name = "heading_jumplist"
    /\ Echo(heading_jumplist(index))

PrintAllHeadings ==
    /\ pc = "loaded" /\ cmd.name = "print_all_headings"
    /\ Echo(print_all_headings(index))

JumpToHeading ==
    /\ pc = "loaded" /\ cmd.name = "jump_to_heading"
    /\ Echo(jump_to_heading(index, cmd.arg))

TodoJumplist ==
    /\ pc = "loaded" /\ cmd.name = "todo_jumplist"
    /\ Echo(todo_jumplist(index))

DeadlineJumplist ==
    /\ pc = "loaded" /\ cmd.name = "deadline_jumplist"
    /\ LET out == deadline_jumplist(index, cmd.today)
       IN  IF out = None
           THEN /\ pc' = "crashed"
                /\ UNCHANGED <<tree, fnames, fidx, content, atEof, curl, cur_heading,
                               index, outfile, outfile0, stderr, stdout, cmd,
                               hcurl, hnextl, hresult>>
           ELSE Echo(out[1])

NextJump ==
    \/ Load
    \/ HeadingJumplist
    \/ PrintAllHeadings
    \/ JumpToHeading
    \/ TodoJumplist
    \/ DeadlineJumplist

SpecJump == InitJump /\ [][NextJump]_vars

-----------------------------------------------------------------------------
(* Properties of Index.load and of the commands *)

\* C5: Index.load on a path that is absent or cannot be opened returns the empty
\* Index, writes one diagnostic to the error stream and raises nothing: the
\* command completes and prints nothing.
C5_MissingFileLoadsEmpty ==
    outfile0.kind # "text" =>
        /\ pc # "crashed"
        /\ stdout = <<>>
        /\ pc \in {"loaded", "exit"} => index = EmptyIndex /\ stderr = 1

C5_Witness ==
    /\ outfile0 = NoFile
    /\ pc = "exit"
    /\ cmd.name = "heading_jumplist"

IsCorrupt(f) == f.kind = "text" /\ model_validate_json(f.doc) = Invalid

\* C6 as stated: Index.load on a readable index file with corrupt content gives
\* an empty Index and the program does not fail.
C6_CorruptLoadsEmpty ==
    IsCorrupt(outfile0) =>
        /\ pc # "crashed"
        /\ pc \in {"loaded", "exit"} => index = EmptyIndex

\* C6, amended: Index.load on a readable index file with corrupt content raises
\* a validation error that it does not catch; the command ends there, with
\* nothing printed and no diagnostic of Index.load.
C6_CorruptLoadRaises ==
    (IsCorrupt(outfile0) /\ pc # "start") =>
        pc = "crashed" /\ stdout = <<>> /\ stderr = 0

C6_Witness ==
    /\ outfile0 = TextFile(NotJson)
    /\ pc = "crashed"

\* the date of the stored deadline at position i
DateAt(i) == parse(index.deadlines[i].when)[1]

\* stored position i comes before stored position j in the output
Before(i, j) == DateAt(i) < DateAt(j) \/ (DateAt(i) = DateAt(j) /\ i < j)

\* the stored position of the deadline printed on line k
StoredAt(k) ==
    CHOOSE i \in 1..Len(index.deadlines) :
        Cardinality({j \in 1..Len(index.deadlines) : Before(j, i)}) = k - 1

\* C8: deadline_jumplist prints one line per Deadline of the loaded Index, in
\* ascending order of the parsed dates, deadlines of equal date in their stored
\* order; the stored order and the index file stay as they were.
C8_DeadlinesSortedStable ==
    cmd.name = "deadline_jumplist" =>
        /\ outfile = outfile0
        /\ pc = "exit" =>
            /\ index = Index_load(outfile0).index
            /\ Len(stdout) = Len(index.deadlines)
            /\ \A k \in 1..Len(stdout) :
                 stdout[k] = deadline_line(index.deadlines[StoredAt(k)], cmd.today)

C8_Witness ==
    /\ cmd.name = "deadline_jumplist"
    /\ pc = "exit"
    /\ Len(index.deadlines) = 3
    /\ DateAt(1) > DateAt(2)
    /\ DateAt(2) = DateAt(3)
    /\ index.deadlines[2].when # index.deadlines[3].when

====
